---- MODULE Spec2Model ----
(***************************************************************************)
(* neqo-client (src/neqo-client/src/main.rs): the synchronous datagram     *)
(* pump process_loop / old::process_loop_old, the Pre-Connect and          *)
(* Post-Connect handlers of both modes, emit_packets, and the driving      *)
(* sequences client / old::old_client.                                     *)
(*                                                                         *)
(* The connection (Http3Connection / Connection), the UDP socket and the   *)
(* peer are the environment: every value they return is chosen             *)
(* nondeterministically from a small set.                                  *)
(***************************************************************************)
EXTENDS Integers, Sequences, FiniteSets, TLC

\* ---- bounds of the model ------------------------------------------------
MaxRecv == 2        \* completed socket.recv calls per session
MaxOut == 2         \* datagrams returned by one process_output call
MaxEvents == 2      \* events returned by one events() call

\* ---- program constants --------------------------------------------------
BufLen == 2048      \* let buf = &mut [0u8; 2048]

\* ---- environment value sets ---------------------------------------------
States == <<"Idle", "Connecting", "Connected", "Closing", "Closed">>
StateSet == {States[i] : i \in 1..Len(States)}
Rank(st) == CHOOSE i \in 1..Len(States) : States[i] = st
\* The connection only moves forward through its states.
Advance(st) == {s \in StateSet : Rank(s) >= Rank(st)}

\* Stream ids are opaque to the client: fetch / stream_create return the id
\* of the request stream, events may name that stream or another one.
RequestStreamIds == {0}
StreamIds == RequestStreamIds \cup {4}
RecvSizes == {0, 1, BufLen - 1, BufLen}
OutLens == {1200}
\* socket.send returns Err (-1) or Ok(n), n <= d.len()
SendResults(d) == {-1, d - 1, d}
OutBatches == UNION {[1..n -> OutLens] : n \in 0..MaxOut}

\* Outcome of read_data / stream_recv followed by String::from_utf8:
\* the read fails, or succeeds with a fin flag and bytes that are or are
\* not valid UTF-8.
NoRead == [ok |-> FALSE, fin |-> FALSE, utf8 |-> FALSE]
ReadResults == {NoRead} \cup
  {[ok |-> TRUE, fin |-> f, utf8 |-> u] : f \in BOOLEAN, u \in BOOLEAN}
\* Only a request stream is ever read, so only its events carry an outcome.
ReadsOf(s) == IF s \in RequestStreamIds THEN ReadResults ELSE {NoRead}

Http3Events ==
  {[kind |-> "HeaderReady", stream_id |-> s, rd |-> NoRead] : s \in StreamIds}
  \cup UNION {{[kind |-> "DataReadable", stream_id |-> s, rd |-> r] :
                 r \in ReadsOf(s)} : s \in StreamIds}
  \cup {[kind |-> "Other", stream_id |-> 0, rd |-> NoRead]}

ConnectionEvents ==
  UNION {{[kind |-> "RecvStreamReadable", stream_id |-> s, rd |-> r] :
            r \in ReadsOf(s)} : s \in StreamIds}
  \cup {[kind |-> "SendStreamWritable", stream_id |-> s, rd |-> NoRead] :
          s \in StreamIds}
  \cup {[kind |-> "Other", stream_id |-> 0, rd |-> NoRead]}

Batches(E) == UNION {[1..n -> E] : n \in 0..MaxEvents}

NoStream == -1
NoSize == -1
NoResult == [handler |-> "none", st |-> "none", evs |-> <<>>,
             ret |-> "none", trace |-> <<>>, stop |-> <<>>, rd_err |-> 0]

VARIABLES
  use_old_http,      \* Args.use_old_http
  cpc,               \* position in client / old_client
  pc,                \* position in process_loop / process_loop_old
  proc,              \* "running", "exit0", "exit1", "panic"
  state,             \* the connection's state
  streams,           \* h2.streams, the Interest Set
  client_stream_id,  \* the id returned by fetch / stream_create
  in_dgrams,         \* the pump's in_dgrams
  out_dgrams,        \* datagrams of out_dgrams not yet passed to send
  exiting,           \* the pump's exiting
  retval,            \* value returned by the last pump run
  \* ---- history ----
  iter_ops,          \* operations of the current pump iteration
  produced,          \* datagrams returned by this iteration's process_output
  sent,              \* datagrams passed to socket.send in this iteration
  recvd,             \* completed recv calls of the session
  last_sz,           \* length returned by the last recv of this pump run
  accepted,          \* datagrams pushed to in_dgrams, in arrival order
  fed,               \* datagrams passed to process_input, in order
  hres,              \* the last handler call: state seen, result, closes
  close_calls,       \* arguments of the close calls of the session
  fin_prints,        \* number of "<FIN[..]>" lines printed
  warns,             \* number of "Received more than" lines printed
  request_calls,     \* calls of fetch / stream_create
  pre_calls,         \* calls of the Pre-Connect handler
  pre_continues,     \* of which returned true
  pre_connected_at   \* ordinal of the first call that saw Connected, or 0

pumpVars == <<pc, in_dgrams, out_dgrams, exiting, retval>>
histVars == <<iter_ops, produced, sent, recvd, last_sz, accepted, fed,
              hres, close_calls, fin_prints, warns, request_calls, pre_calls,
              pre_continues, pre_connected_at>>
vars == <<use_old_http, cpc, proc, state, streams, client_stream_id,
          pumpVars, histVars>>

InPump == proc = "running" /\ cpc \in {"pre", "post"}

Init ==
  /\ use_old_http \in BOOLEAN
  /\ cpc = "pre"
  /\ pc = "process_input"
  /\ proc = "running"
  /\ state = "Idle"
  /\ streams = {}
  /\ client_stream_id = NoStream
  /\ in_dgrams = <<>>
  /\ out_dgrams = <<>>
  /\ exiting = FALSE
  /\ retval = "none"
  /\ iter_ops = <<>>
  /\ produced = <<>>
  /\ sent = <<>>
  /\ recvd = 0
  /\ last_sz = NoSize
  /\ accepted = <<>>
  /\ fed = <<>>
  /\ hres = NoResult
  /\ close_calls = <<>>
  /\ fin_prints = 0
  /\ warns = 0
  /\ request_calls = 0
  /\ pre_calls = 0
  /\ pre_continues = 0
  /\ pre_connected_at = 0

\* ---- process_loop (framed mode) -----------------------------------------

\* variant of ProcessInput: in_dgrams is passed without being drained
ProcessInput_no_drain ==
  /\ InPump /\ ~use_old_http /\ pc = "process_input"
  /\ \E st \in Advance(state) : state' = st
  /\ fed' = fed \o [i \in 1..Len(in_dgrams) |-> in_dgrams[i].id]
  /\ in_dgrams' = in_dgrams
  /\ iter_ops' = <<"process_input">>
  /\ produced' = <<>>
  /\ sent' = <<>>
  /\ hres' = NoResult
  /\ pc' = "closed_check"
  /\ UNCHANGED <<use_old_http, cpc, proc, streams, client_stream_id,
                 out_dgrams, exiting, retval, recvd, last_sz, accepted,
                 close_calls, fin_prints, warns, request_calls, pre_calls,
                 pre_continues, pre_connected_at>>

\* client.process_input(in_dgrams.drain(..), now())
ProcessInput ==
  /\ InPump /\ ~use_old_http /\ pc = "process_input"
  /\ \E st \in Advance(state) : state' = st
  /\ fed' = fed \o [i \in 1..Len(in_dgrams) |-> in_dgrams[i].id]
  /\ in_dgrams' = <<>>
  /\ iter_ops' = <<"process_input">>
  /\ produced' = <<>>
  /\ sent' = <<>>
  /\ hres' = NoResult
  /\ pc' = "closed_check"
  /\ UNCHANGED <<use_old_http, cpc, proc, streams, client_stream_id,
                 out_dgrams, exiting, retval, recvd, last_sz, accepted,
                 close_calls, fin_prints, warns, request_calls, pre_calls,
                 pre_continues, pre_connected_at>>

\* variant of IsClosed: matches the state before Closed
IsClosed_closing(st) == st = "Closing"

\* if let Http3State::Closed(..) = client.state()
IsClosed(st) == st = "Closed"

\* variant of ClosedCheck: the handler call is left out
ClosedCheck_skip_handler ==
  /\ InPump /\ ~use_old_http /\ pc = "closed_check"
  /\ IF IsClosed(state)
       THEN /\ pc' = "returned"
            /\ retval' = state
            /\ iter_ops' = Append(iter_ops, "closed")
       ELSE /\ pc' = "process_output"
            /\ iter_ops' = Append(iter_ops, "not_closed")
            /\ UNCHANGED retval
  /\ UNCHANGED <<use_old_http, cpc, proc, state, streams, client_stream_id,
                 in_dgrams, out_dgrams, exiting, produced, sent,
                 recvd, last_sz, accepted, fed, hres, close_calls,
                 fin_prints, warns, request_calls, pre_calls, pre_continues,
                 pre_connected_at>>

ClosedCheck ==
  /\ InPump /\ ~use_old_http /\ pc = "closed_check"
  /\ IF IsClosed(state)
       THEN /\ pc' = "returned"
            /\ retval' = state
            /\ iter_ops' = Append(iter_ops, "closed")
       ELSE /\ pc' = "handle"
            /\ iter_ops' = Append(iter_ops, "not_closed")
            /\ UNCHANGED retval
  /\ UNCHANGED <<use_old_http, cpc, proc, state, streams, client_stream_id,
                 in_dgrams, out_dgrams, exiting, produced, sent,
                 recvd, last_sz, accepted, fed, hres, close_calls,
                 fin_prints, warns, request_calls, pre_calls, pre_continues,
                 pre_connected_at>>

\* ---- handlers (framed mode) ---------------------------------------------

NoArgs == [error |-> -1, msg |-> ""]
Op(i, op) == [ev |-> i, op |-> op, args |-> NoArgs]
OpArgs(i, op, args) == [ev |-> i, op |-> op, args |-> args]

\* variant of PreConnectHandler_handle: also stops on Closing
PreConnectHandler_handle_closing(st) ==
  IF st = "Connected" \/ st = "Closing" THEN FALSE ELSE TRUE

\* PreConnectHandler::handle: the returned bool
PreConnectHandler_handle(st) ==
  IF st = "Connected" THEN FALSE ELSE TRUE

\* Results of one turn of the loop over the events, for the i-th event.
\* ret: "next" (go on with the loop), "false" (return false), "panic".

\* variant of PostConnectHandler_HeaderReady: no membership check
PostConnectHandler_HeaderReady_unchecked(e, i, strms) ==
  [ret |-> "next", ops |-> <<Op(i, "get_headers"), Op(i, "print_headers")>>]

\* Http3Event::HeaderReady { stream_id } => { .. }
PostConnectHandler_HeaderReady(e, i, strms) ==
  IF ~(e.stream_id \in strms)
    THEN [ret |-> "false",
          ops |-> <<Op(i, "contains"), Op(i, "print_unexpected_stream")>>]
    ELSE [ret |-> "next",
          ops |-> <<Op(i, "contains"), Op(i, "get_headers"),
                    Op(i, "print_headers")>>]

\* variant of PostConnectHandler_DataReadable: every successful read ends
\* the phase, with no close
PostConnectHandler_DataReadable_stop(e, i, strms) ==
  IF ~(e.stream_id \in strms)
    THEN [ret |-> "false",
          ops |-> <<Op(i, "contains"), Op(i, "print_unexpected_stream")>>]
  ELSE IF ~e.rd.ok
    THEN [ret |-> "panic", ops |-> <<Op(i, "contains"), Op(i, "read")>>]
  ELSE IF ~e.rd.utf8
    THEN [ret |-> "panic",
          ops |-> <<Op(i, "contains"), Op(i, "read"), Op(i, "from_utf8")>>]
  ELSE [ret |-> "false",
        ops |-> <<Op(i, "contains"), Op(i, "read"), Op(i, "from_utf8"),
                  Op(i, "print_read")>>]

\* variant of PostConnectHandler_DataReadable: a failed read is passed over
PostConnectHandler_DataReadable_read_ignored(e, i, strms) ==
  IF ~(e.stream_id \in strms)
    THEN [ret |-> "false",
          ops |-> <<Op(i, "contains"), Op(i, "print_unexpected_stream")>>]
  ELSE IF ~e.rd.ok
    THEN [ret |-> "next", ops |-> <<Op(i, "contains"), Op(i, "read")>>]
  ELSE IF ~e.rd.utf8
    THEN [ret |-> "panic",
          ops |-> <<Op(i, "contains"), Op(i, "read"), Op(i, "from_utf8")>>]
  ELSE IF e.rd.fin
    THEN [ret |-> "false",
          ops |-> <<Op(i, "contains"), Op(i, "read"), Op(i, "from_utf8"),
                    Op(i, "print_read"), Op(i, "print_fin"),
                    OpArgs(i, "close", [error |-> 0, msg |-> "kthxbye!"])>>]
  ELSE [ret |-> "next",
        ops |-> <<Op(i, "contains"), Op(i, "read"), Op(i, "from_utf8"),
                  Op(i, "print_read")>>]

\* Http3Event::DataReadable { stream_id } => { .. }
PostConnectHandler_DataReadable(e, i, strms) ==
  IF ~(e.stream_id \in strms)
    THEN [ret |-> "false",
          ops |-> <<Op(i, "contains"), Op(i, "print_unexpected_stream")>>]
  ELSE IF ~e.rd.ok
    THEN [ret |-> "panic", ops |-> <<Op(i, "contains"), Op(i, "read")>>]
  ELSE IF ~e.rd.utf8
    THEN [ret |-> "panic",
          ops |-> <<Op(i, "contains"), Op(i, "read"), Op(i, "from_utf8")>>]
  ELSE IF e.rd.fin
    THEN [ret |-> "false",
          ops |-> <<Op(i, "contains"), Op(i, "read"), Op(i, "from_utf8"),
                    Op(i, "print_read"), Op(i, "print_fin"),
                    OpArgs(i, "close", [error |-> 0, msg |-> "kthxbye!"])>>]
  ELSE [ret |-> "next",
        ops |-> <<Op(i, "contains"), Op(i, "read"), Op(i, "from_utf8"),
                  Op(i, "print_read")>>]

\* match event { .. _ => {} }
PostConnectHandler_event(e, i, strms) ==
  CASE e.kind = "HeaderReady" -> PostConnectHandler_HeaderReady(e, i, strms)
    [] e.kind = "DataReadable" -> PostConnectHandler_DataReadable(e, i, strms)
    [] OTHER -> [ret |-> "next", ops |-> <<>>]

\* for event in client.events() { ... } true
RECURSIVE PostConnectHandler_loop(_, _, _, _)
PostConnectHandler_loop(evs, i, strms, trace) ==
  IF i > Len(evs)
    THEN [ret |-> "true", trace |-> trace]
    ELSE LET r == PostConnectHandler_event(evs[i], i, strms) IN
         IF r.ret = "next"
           THEN PostConnectHandler_loop(evs, i + 1, strms, trace \o r.ops)
           ELSE [ret |-> r.ret, trace |-> trace \o r.ops]

\* PostConnectHandler::handle on the events that client.events() returns
PostConnectHandler_handle(evs, strms) ==
  PostConnectHandler_loop(evs, 1, strms,
                          <<Op(0, "process_http3"), Op(0, "events")>>)

\* ---- bookkeeping shared by the handler steps ----------------------------
Closes(trace) == SelectSeq(trace, LAMBDA t : t.op = "close")
Count(trace, op) == Len(SelectSeq(trace, LAMBDA t : t.op = op))
\* the operations of the event at which the loop over the events ended by
\* return false or by a panic (none when the handler returned true)
StopOps(r) ==
  IF r.ret = "true" THEN <<>>
  ELSE LET q == SelectSeq(r.trace,
                          LAMBDA t : t.ev = r.trace[Len(r.trace)].ev)
       IN [k \in 1..Len(q) |-> q[k].op]
\* the events of the call whose read was made, on a stream of the Interest
\* Set, and returned an error
ReadErrors(evs, strms, trace) ==
  Cardinality({i \in 1..Len(evs) :
                 /\ evs[i].kind \in {"DataReadable", "RecvStreamReadable"}
                 /\ evs[i].stream_id \in strms
                 /\ ~evs[i].rd.ok
                 /\ \E k \in 1..Len(trace) :
                      trace[k].ev = i /\ trace[k].op = "read"})
\* close moves a connection that is not Closed to Closing or Closed.
AfterClose(st) == IF st = "Closed" THEN {"Closed"} ELSE {"Closing", "Closed"}

\* let exiting = !handler.handle(client), handler a PreConnectHandler
HandlePre ==
  /\ InPump /\ ~use_old_http /\ cpc = "pre" /\ pc = "handle"
  /\ LET r == PreConnectHandler_handle(state) IN
       /\ exiting' = ~r
       /\ hres' = [handler |-> "pre", st |-> state, evs |-> <<>>,
                   ret |-> IF r THEN "true" ELSE "false", trace |-> <<>>,
                   stop |-> <<>>, rd_err |-> 0]
       /\ pre_continues' = IF r THEN pre_continues + 1 ELSE pre_continues
  /\ pre_calls' = pre_calls + 1
  /\ pre_connected_at' = IF state = "Connected" /\ pre_connected_at = 0
                           THEN pre_calls + 1 ELSE pre_connected_at
  /\ iter_ops' = Append(iter_ops, "handler")
  /\ pc' = "process_output"
  /\ UNCHANGED <<use_old_http, cpc, proc, state, streams, client_stream_id,
                 in_dgrams, out_dgrams, retval, produced, sent, recvd,
                 last_sz, accepted, fed, close_calls, fin_prints, warns,
                 request_calls>>

\* let exiting = !handler.handle(client), handler a PostConnectHandler
HandlePost ==
  /\ InPump /\ ~use_old_http /\ cpc = "post" /\ pc = "handle"
  /\ \E evs \in Batches(Http3Events) :
       LET r == PostConnectHandler_handle(evs, streams) IN
         /\ hres' = [handler |-> "post", st |-> state, evs |-> <<>>,
                     ret |-> r.ret, trace |-> Closes(r.trace),
                     stop |-> StopOps(r),
                     rd_err |-> ReadErrors(evs, streams, r.trace)]
         /\ close_calls' = close_calls \o Closes(r.trace)
         /\ fin_prints' = fin_prints + Count(r.trace, "print_fin")
         /\ IF Closes(r.trace) # <<>>
              THEN \E st \in AfterClose(state) : state' = st
              ELSE \E st \in Advance(state) : state' = st
         /\ IF r.ret = "panic"
              THEN /\ proc' = "panic"
                   /\ iter_ops' = Append(iter_ops, "handler_panic")
                   /\ UNCHANGED <<pc, exiting>>
              ELSE /\ exiting' = (r.ret = "false")
                   /\ iter_ops' = Append(iter_ops, "handler")
                   /\ pc' = "process_output"
                   /\ UNCHANGED proc
  /\ UNCHANGED <<use_old_http, cpc, streams, client_stream_id, in_dgrams,
                 out_dgrams, retval, produced, sent, recvd, last_sz,
                 accepted, fed, warns, request_calls, pre_calls,
                 pre_continues, pre_connected_at>>

\* let (out_dgrams, _timer) = client.process_output(now())
ProcessOutput ==
  /\ InPump /\ ~use_old_http /\ pc = "process_output"
  /\ \E ds \in OutBatches :
       /\ produced' = ds
       /\ out_dgrams' = ds
  /\ \E st \in Advance(state) : state' = st
  /\ sent' = <<>>
  /\ hres' = NoResult
  /\ iter_ops' = Append(iter_ops, "process_output")
  /\ pc' = "emit"
  /\ UNCHANGED <<use_old_http, cpc, proc, streams, client_stream_id,
                 in_dgrams, exiting, retval, recvd, last_sz, accepted,
                 fed, close_calls, fin_prints, warns, request_calls,
                 pre_calls, pre_continues, pre_connected_at>>

\* ---- emit_packets (both modes) ------------------------------------------

\* variant of emit_packets_more: the loop stops one datagram early
emit_packets_more_skip_last(q) == Len(q) > 1

\* for d in out_dgrams: is there a next datagram
emit_packets_more(q) == q # <<>>

\* variant of emit_packets: a short send is fatal like a send error
emit_packets_short_fatal ==
  /\ InPump /\ pc = "emit" /\ emit_packets_more(out_dgrams)
  /\ LET d == Head(out_dgrams) IN
       \E res \in SendResults(d) :
         /\ sent' = Append(sent, d)
         /\ out_dgrams' = Tail(out_dgrams)
         /\ IF res # d
              THEN /\ proc' = "panic"
                   /\ iter_ops' = Append(iter_ops, IF res = -1 THEN "send_panic"
                                                   ELSE "send_short")
              ELSE /\ iter_ops' = Append(iter_ops, "send")
                   /\ UNCHANGED proc
  /\ UNCHANGED <<use_old_http, cpc, state, streams, client_stream_id, pc,
                 in_dgrams, exiting, retval, produced, recvd, last_sz,
                 accepted, fed, hres, close_calls, fin_prints, warns,
                 request_calls, pre_calls, pre_continues, pre_connected_at>>

\* variant of emit_packets: a send error is passed over like a short send
emit_packets_err_ignored ==
  /\ InPump /\ pc = "emit" /\ emit_packets_more(out_dgrams)
  /\ LET d == Head(out_dgrams) IN
       \E res \in SendResults(d) :
         /\ sent' = Append(sent, d)
         /\ out_dgrams' = Tail(out_dgrams)
         /\ iter_ops' = Append(iter_ops, IF res = -1 THEN "send_panic"
                                         ELSE IF res # d THEN "send_short"
                                         ELSE "send")
         /\ UNCHANGED proc
  /\ UNCHANGED <<use_old_http, cpc, state, streams, client_stream_id, pc,
                 in_dgrams, exiting, retval, produced, recvd, last_sz,
                 accepted, fed, hres, close_calls, fin_prints, warns,
                 request_calls, pre_calls, pre_continues, pre_connected_at>>

\* One turn of the loop of emit_packets: socket.send(&d[..]) returns Err
\* (expect panics) or Ok(n) with n <= d.len().
emit_packets ==
  /\ InPump /\ pc = "emit" /\ emit_packets_more(out_dgrams)
  /\ LET d == Head(out_dgrams) IN
       \E res \in SendResults(d) :
         /\ sent' = Append(sent, d)
         /\ out_dgrams' = Tail(out_dgrams)
         /\ IF res = -1
              THEN /\ proc' = "panic"
                   /\ iter_ops' = Append(iter_ops, "send_panic")
              ELSE /\ iter_ops' =
                        Append(iter_ops, IF res # d THEN "send_short" ELSE "send")
                   /\ UNCHANGED proc
  /\ UNCHANGED <<use_old_http, cpc, state, streams, client_stream_id, pc,
                 in_dgrams, exiting, retval, produced, recvd, last_sz,
                 accepted, fed, hres, close_calls, fin_prints, warns,
                 request_calls, pre_calls, pre_continues, pre_connected_at>>

\* ---- process_loop (framed mode), after emit_packets ---------------------

\* variant of ExitCheck: the exiting test comes before emit_packets is done
ExitCheck_early ==
  /\ InPump /\ ~use_old_http /\ pc = "emit"
  /\ exiting \/ ~emit_packets_more(out_dgrams)
  /\ IF exiting
       THEN /\ pc' = "returned"
            /\ retval' = state
            /\ iter_ops' = Append(iter_ops, "exit")
       ELSE /\ pc' = "recv"
            /\ iter_ops' = Append(iter_ops, "no_exit")
            /\ UNCHANGED retval
  /\ UNCHANGED <<use_old_http, cpc, proc, state, streams, client_stream_id,
                 in_dgrams, out_dgrams, exiting, produced, sent,
                 recvd, last_sz, accepted, fed, hres, close_calls,
                 fin_prints, warns, request_calls, pre_calls, pre_continues,
                 pre_connected_at>>

\* if exiting { return client.state(); }
ExitCheck ==
  /\ InPump /\ ~use_old_http /\ pc = "emit" /\ ~emit_packets_more(out_dgrams)
  /\ IF exiting
       THEN /\ pc' = "returned"
            /\ retval' = state
            /\ iter_ops' = Append(iter_ops, "exit")
       ELSE /\ pc' = "recv"
            /\ iter_ops' = Append(iter_ops, "no_exit")
            /\ UNCHANGED retval
  /\ UNCHANGED <<use_old_http, cpc, proc, state, streams, client_stream_id,
                 in_dgrams, out_dgrams, exiting, produced, sent,
                 recvd, last_sz, accepted, fed, hres, close_calls,
                 fin_prints, warns, request_calls, pre_calls, pre_continues,
                 pre_connected_at>>

\* variant of RecvTruncated: compares with > instead of ==
RecvTruncated_gt(sz) == sz > BufLen
\* variant of RecvAccepted: compares with >= instead of >
RecvAccepted_ge(sz) == sz >= 0

\* if sz == buf.len() { eprintln!(..); continue; }
RecvTruncated(sz) == sz = BufLen
\* if sz > 0 { in_dgrams.push(Datagram::new(..)) }
RecvAccepted(sz) == sz > 0

\* variant of RecvErr: the error is logged and the receive is retried
RecvErr_retry ==
  /\ InPump /\ ~use_old_http /\ pc = "recv"
  /\ iter_ops' = Append(iter_ops, "recv_err")
  /\ UNCHANGED <<use_old_http, cpc, proc, state, streams, client_stream_id,
                 pumpVars, produced, sent, recvd, last_sz, accepted,
                 fed, hres, close_calls, fin_prints, warns, request_calls,
                 pre_calls, pre_continues, pre_connected_at>>

\* socket.recv(&mut buf[..]) returning Err
RecvErr ==
  /\ InPump /\ ~use_old_http /\ pc = "recv"
  /\ proc' = "exit1"
  /\ iter_ops' = Append(iter_ops, "recv_err")
  /\ UNCHANGED <<use_old_http, cpc, state, streams, client_stream_id,
                 pumpVars, produced, sent, recvd, last_sz, accepted,
                 fed, hres, close_calls, fin_prints, warns, request_calls,
                 pre_calls, pre_continues, pre_connected_at>>

\* variant of Recv: the blocked receive gives up when the timer returned by
\* process_output expires, and the loop goes round with nothing received
Recv_timer ==
  /\ InPump /\ ~use_old_http /\ pc = "recv"
  /\ iter_ops' = <<>>
  /\ produced' = <<>>
  /\ sent' = <<>>
  /\ pc' = "process_input"
  /\ UNCHANGED <<use_old_http, cpc, proc, state, streams, client_stream_id,
                 in_dgrams, out_dgrams, exiting, retval, recvd, last_sz,
                 accepted, fed, hres, close_calls, fin_prints, warns,
                 request_calls, pre_calls, pre_continues, pre_connected_at>>

\* socket.recv(&mut buf[..]) returning Ok(sz), and the rest of the loop body
Recv ==
  /\ InPump /\ ~use_old_http /\ pc = "recv"
  /\ recvd < MaxRecv
  /\ \E sz \in RecvSizes :
       /\ recvd' = recvd + 1
       /\ last_sz' = sz
       /\ IF RecvTruncated(sz)
            THEN /\ warns' = warns + 1
                 /\ UNCHANGED <<in_dgrams, accepted>>
            ELSE /\ UNCHANGED warns
                 /\ IF RecvAccepted(sz)
                      THEN /\ in_dgrams' =
                                Append(in_dgrams, [id |-> recvd + 1, len |-> sz])
                           /\ accepted' = Append(accepted, recvd + 1)
                      ELSE UNCHANGED <<in_dgrams, accepted>>
  /\ iter_ops' = <<>>
  /\ produced' = <<>>
  /\ sent' = <<>>
  /\ pc' = "process_input"
  /\ UNCHANGED <<use_old_http, cpc, proc, state, streams, client_stream_id,
                 out_dgrams, exiting, retval, fed, hres, close_calls,
                 fin_prints, request_calls, pre_calls, pre_continues,
                 pre_connected_at>>

\* ---- client (framed mode) -----------------------------------------------

\* client.fetch(..).unwrap(), after the first process_loop returned (its
\* return value is dropped)
Fetch ==
  /\ proc = "running" /\ ~use_old_http /\ cpc = "pre" /\ pc = "returned"
  /\ request_calls' = request_calls + 1
  /\ \E r \in {NoStream} \cup RequestStreamIds :
       IF r = NoStream
         THEN /\ proc' = "panic"
              /\ UNCHANGED <<cpc, client_stream_id>>
         ELSE /\ client_stream_id' = r
              /\ cpc' = "insert"
              /\ UNCHANGED proc
  /\ UNCHANGED <<use_old_http, state, streams, pumpVars, iter_ops,
                 produced, sent, recvd, last_sz, accepted, fed, hres,
                 close_calls, fin_prints, warns, pre_calls, pre_continues,
                 pre_connected_at>>

\* variant of Insert: the insert into h2.streams is left out
Insert_no_insert ==
  /\ proc = "running" /\ ~use_old_http /\ cpc = "insert"
  /\ streams' = {}
  /\ cpc' = "post"
  /\ pc' = "process_input"
  /\ in_dgrams' = <<>>
  /\ out_dgrams' = <<>>
  /\ exiting' = FALSE
  /\ last_sz' = NoSize
  /\ iter_ops' = <<>>
  /\ produced' = <<>>
  /\ sent' = <<>>
  /\ hres' = NoResult
  /\ UNCHANGED <<use_old_http, proc, state, client_stream_id, retval, recvd,
                 accepted, fed, close_calls, fin_prints, warns,
                 request_calls, pre_calls, pre_continues, pre_connected_at>>

\* h2.streams.insert(client_stream_id) and the entry into the second
\* process_loop (buf and in_dgrams are created anew)
Insert ==
  /\ proc = "running" /\ ~use_old_http /\ cpc = "insert"
  /\ streams' = {} \cup {client_stream_id}
  /\ cpc' = "post"
  /\ pc' = "process_input"
  /\ in_dgrams' = <<>>
  /\ out_dgrams' = <<>>
  /\ exiting' = FALSE
  /\ last_sz' = NoSize
  /\ iter_ops' = <<>>
  /\ produced' = <<>>
  /\ sent' = <<>>
  /\ hres' = NoResult
  /\ UNCHANGED <<use_old_http, proc, state, client_stream_id, retval, recvd, accepted, fed, close_calls, fin_prints, warns,
                 request_calls, pre_calls, pre_continues, pre_connected_at>>

\* the second process_loop returned: client returns, main returns
ClientReturn ==
  /\ proc = "running" /\ ~use_old_http /\ cpc = "post" /\ pc = "returned"
  /\ cpc' = "done"
  /\ proc' = "exit0"
  /\ UNCHANGED <<use_old_http, state, streams, client_stream_id, pumpVars,
                 histVars>>

\* ---- old::process_loop_old and the raw-mode handlers --------------------

\* client.process_input(in_dgrams.drain(..), now())
ProcessInputOld ==
  /\ InPump /\ use_old_http /\ pc = "process_input"
  /\ \E st \in Advance(state) : state' = st
  /\ fed' = fed \o [i \in 1..Len(in_dgrams) |-> in_dgrams[i].id]
  /\ in_dgrams' = <<>>
  /\ iter_ops' = <<"process_input">>
  /\ produced' = <<>>
  /\ sent' = <<>>
  /\ hres' = NoResult
  /\ pc' = "closed_check"
  /\ UNCHANGED <<use_old_http, cpc, proc, streams, client_stream_id,
                 out_dgrams, exiting, retval, recvd, last_sz, accepted,
                 close_calls, fin_prints, warns, request_calls, pre_calls,
                 pre_continues, pre_connected_at>>

\* if let State::Closed(..) = client.state()
IsClosedOld(st) == st = "Closed"

ClosedCheckOld ==
  /\ InPump /\ use_old_http /\ pc = "closed_check"
  /\ IF IsClosedOld(state)
       THEN /\ pc' = "returned"
            /\ retval' = state
            /\ iter_ops' = Append(iter_ops, "closed")
       ELSE /\ pc' = "handle"
            /\ iter_ops' = Append(iter_ops, "not_closed")
            /\ UNCHANGED retval
  /\ UNCHANGED <<use_old_http, cpc, proc, state, streams, client_stream_id,
                 in_dgrams, out_dgrams, exiting, produced, sent,
                 recvd, last_sz, accepted, fed, hres, close_calls,
                 fin_prints, warns, request_calls, pre_calls, pre_continues,
                 pre_connected_at>>

\* PreConnectHandlerOld::handle: the returned bool
PreConnectHandlerOld_handle(st) ==
  IF st = "Connected" THEN FALSE ELSE TRUE

\* let exiting = !handler.handle(client), handler a PreConnectHandlerOld
HandlePreOld ==
  /\ InPump /\ use_old_http /\ cpc = "pre" /\ pc = "handle"
  /\ LET r == PreConnectHandlerOld_handle(state) IN
       /\ exiting' = ~r
       /\ hres' = [handler |-> "pre", st |-> state, evs |-> <<>>,
                   ret |-> IF r THEN "true" ELSE "false", trace |-> <<>>,
                   stop |-> <<>>, rd_err |-> 0]
       /\ pre_continues' = IF r THEN pre_continues + 1 ELSE pre_continues
  /\ pre_calls' = pre_calls + 1
  /\ pre_connected_at' = IF state = "Connected" /\ pre_connected_at = 0
                           THEN pre_calls + 1 ELSE pre_connected_at
  /\ iter_ops' = Append(iter_ops, "handler")
  /\ pc' = "process_output"
  /\ UNCHANGED <<use_old_http, cpc, proc, state, streams, client_stream_id,
                 in_dgrams, out_dgrams, retval, produced, sent, recvd,
                 last_sz, accepted, fed, close_calls, fin_prints, warns,
                 request_calls>>

\* ConnectionEvent::RecvStreamReadable { stream_id } => { .. }
PostConnectHandlerOld_RecvStreamReadable(e, i, strms) ==
  IF ~(e.stream_id \in strms)
    THEN [ret |-> "false",
          ops |-> <<Op(i, "contains"), Op(i, "print_unexpected_stream")>>]
  ELSE IF ~e.rd.ok
    THEN [ret |-> "panic", ops |-> <<Op(i, "contains"), Op(i, "read")>>]
  ELSE IF ~e.rd.utf8
    THEN [ret |-> "panic",
          ops |-> <<Op(i, "contains"), Op(i, "read"), Op(i, "from_utf8")>>]
  ELSE IF e.rd.fin
    THEN [ret |-> "false",
          ops |-> <<Op(i, "contains"), Op(i, "read"), Op(i, "from_utf8"),
                    Op(i, "print_read"), Op(i, "print_fin"),
                    OpArgs(i, "close", [error |-> 0, msg |-> "kthxbye!"])>>]
  ELSE [ret |-> "next",
        ops |-> <<Op(i, "contains"), Op(i, "read"), Op(i, "from_utf8"),
                  Op(i, "print_read")>>]

\* variant of PostConnectHandlerOld_event: an unrecognized event ends the
\* phase
PostConnectHandlerOld_event_strict(e, i, strms) ==
  CASE e.kind = "RecvStreamReadable" ->
         PostConnectHandlerOld_RecvStreamReadable(e, i, strms)
    [] e.kind = "SendStreamWritable" ->
         [ret |-> "next", ops |-> <<Op(i, "print_writable")>>]
    [] OTHER -> [ret |-> "false", ops |-> <<Op(i, "print_unexpected_event")>>]

\* match event { .. SendStreamWritable => println!, _ => println! }
PostConnectHandlerOld_event(e, i, strms) ==
  CASE e.kind = "RecvStreamReadable" ->
         PostConnectHandlerOld_RecvStreamReadable(e, i, strms)
    [] e.kind = "SendStreamWritable" ->
         [ret |-> "next", ops |-> <<Op(i, "print_writable")>>]
    [] OTHER -> [ret |-> "next", ops |-> <<Op(i, "print_unexpected_event")>>]

\* for event in client.events() { ... } true
RECURSIVE PostConnectHandlerOld_loop(_, _, _, _)
PostConnectHandlerOld_loop(evs, i, strms, trace) ==
  IF i > Len(evs)
    THEN [ret |-> "true", trace |-> trace]
    ELSE LET r == PostConnectHandlerOld_event(evs[i], i, strms) IN
         IF r.ret = "next"
           THEN PostConnectHandlerOld_loop(evs, i + 1, strms, trace \o r.ops)
           ELSE [ret |-> r.ret, trace |-> trace \o r.ops]

\* PostConnectHandlerOld::handle on the events that client.events() returns
PostConnectHandlerOld_handle(evs, strms) ==
  PostConnectHandlerOld_loop(evs, 1, strms, <<Op(0, "events")>>)

\* let exiting = !handler.handle(client), handler a PostConnectHandlerOld
HandlePostOld ==
  /\ InPump /\ use_old_http /\ cpc = "post" /\ pc = "handle"
  /\ \E evs \in Batches(ConnectionEvents) :
       LET r == PostConnectHandlerOld_handle(evs, streams) IN
         /\ hres' = [handler |-> "post", st |-> state, evs |-> <<>>,
                     ret |-> r.ret, trace |-> Closes(r.trace),
                     stop |-> StopOps(r),
                     rd_err |-> ReadErrors(evs, streams, r.trace)]
         /\ close_calls' = close_calls \o Closes(r.trace)
         /\ fin_prints' = fin_prints + Count(r.trace, "print_fin")
         /\ IF Closes(r.trace) # <<>>
              THEN \E st \in AfterClose(state) : state' = st
              ELSE \E st \in Advance(state) : state' = st
         /\ IF r.ret = "panic"
              THEN /\ proc' = "panic"
                   /\ iter_ops' = Append(iter_ops, "handler_panic")
                   /\ UNCHANGED <<pc, exiting>>
              ELSE /\ exiting' = (r.ret = "false")
                   /\ iter_ops' = Append(iter_ops, "handler")
                   /\ pc' = "process_output"
                   /\ UNCHANGED proc
  /\ UNCHANGED <<use_old_http, cpc, streams, client_stream_id, in_dgrams,
                 out_dgrams, retval, produced, sent, recvd, last_sz,
                 accepted, fed, warns, request_calls, pre_calls,
                 pre_continues, pre_connected_at>>

\* let (out_dgrams, _timer) = client.process_output(now())
ProcessOutputOld ==
  /\ InPump /\ use_old_http /\ pc = "process_output"
  /\ \E ds \in OutBatches :
       /\ produced' = ds
       /\ out_dgrams' = ds
  /\ \E st \in Advance(state) : state' = st
  /\ sent' = <<>>
  /\ hres' = NoResult
  /\ iter_ops' = Append(iter_ops, "process_output")
  /\ pc' = "emit"
  /\ UNCHANGED <<use_old_http, cpc, proc, streams, client_stream_id,
                 in_dgrams, exiting, retval, recvd, last_sz, accepted,
                 fed, close_calls, fin_prints, warns, request_calls,
                 pre_calls, pre_continues, pre_connected_at>>

\* variant of ExitCheckOld: the exiting test comes before emit_packets is
\* done
ExitCheckOld_early ==
  /\ InPump /\ use_old_http /\ pc = "emit"
  /\ exiting \/ ~emit_packets_more(out_dgrams)
  /\ IF exiting
       THEN /\ pc' = "returned"
            /\ retval' = state
            /\ iter_ops' = Append(iter_ops, "exit")
       ELSE /\ pc' = "recv"
            /\ iter_ops' = Append(iter_ops, "no_exit")
            /\ UNCHANGED retval
  /\ UNCHANGED <<use_old_http, cpc, proc, state, streams, client_stream_id,
                 in_dgrams, out_dgrams, exiting, produced, sent,
                 recvd, last_sz, accepted, fed, hres, close_calls,
                 fin_prints, warns, request_calls, pre_calls, pre_continues,
                 pre_connected_at>>

\* if exiting { return client.state(); }
ExitCheckOld ==
  /\ InPump /\ use_old_http /\ pc = "emit" /\ ~emit_packets_more(out_dgrams)
  /\ IF exiting
       THEN /\ pc' = "returned"
            /\ retval' = state
            /\ iter_ops' = Append(iter_ops, "exit")
       ELSE /\ pc' = "recv"
            /\ iter_ops' = Append(iter_ops, "no_exit")
            /\ UNCHANGED retval
  /\ UNCHANGED <<use_old_http, cpc, proc, state, streams, client_stream_id,
                 in_dgrams, out_dgrams, exiting, produced, sent,
                 recvd, last_sz, accepted, fed, hres, close_calls,
                 fin_prints, warns, request_calls, pre_calls, pre_continues,
                 pre_connected_at>>

\* if sz == buf.len() { eprintln!(..); continue; }
RecvTruncatedOld(sz) == sz = BufLen
\* if sz > 0 { in_dgrams.push(Datagram::new(..)) }
RecvAcceptedOld(sz) == sz > 0

\* socket.recv(&mut buf[..]) returning Err
RecvErrOld ==
  /\ InPump /\ use_old_http /\ pc = "recv"
  /\ proc' = "exit1"
  /\ iter_ops' = Append(iter_ops, "recv_err")
  /\ UNCHANGED <<use_old_http, cpc, state, streams, client_stream_id,
                 pumpVars, produced, sent, recvd, last_sz, accepted,
                 fed, hres, close_calls, fin_prints, warns, request_calls,
                 pre_calls, pre_continues, pre_connected_at>>

\* socket.recv(&mut buf[..]) returning Ok(sz), and the rest of the loop body
RecvOld ==
  /\ InPump /\ use_old_http /\ pc = "recv"
  /\ recvd < MaxRecv
  /\ \E sz \in RecvSizes :
       /\ recvd' = recvd + 1
       /\ last_sz' = sz
       /\ IF RecvTruncatedOld(sz)
            THEN /\ warns' = warns + 1
                 /\ UNCHANGED <<in_dgrams, accepted>>
            ELSE /\ UNCHANGED warns
                 /\ IF RecvAcceptedOld(sz)
                      THEN /\ in_dgrams' =
                                Append(in_dgrams, [id |-> recvd + 1, len |-> sz])
                           /\ accepted' = Append(accepted, recvd + 1)
                      ELSE UNCHANGED <<in_dgrams, accepted>>
  /\ iter_ops' = <<>>
  /\ produced' = <<>>
  /\ sent' = <<>>
  /\ pc' = "process_input"
  /\ UNCHANGED <<use_old_http, cpc, proc, state, streams, client_stream_id,
                 out_dgrams, exiting, retval, fed, hres, close_calls,
                 fin_prints, request_calls, pre_calls, pre_continues,
                 pre_connected_at>>

\* ---- old::old_client ----------------------------------------------------

\* client.stream_create(StreamType::BiDi).unwrap() and
\* client.stream_send(client_stream_id, req.as_bytes()).unwrap(), after the
\* first process_loop_old returned (its return value is dropped)
StreamCreate ==
  /\ proc = "running" /\ use_old_http /\ cpc = "pre" /\ pc = "returned"
  /\ request_calls' = request_calls + 1
  /\ \E r \in {NoStream} \cup RequestStreamIds, send_ok \in BOOLEAN :
       IF r = NoStream \/ ~send_ok
         THEN /\ proc' = "panic"
              /\ UNCHANGED <<cpc, client_stream_id>>
         ELSE /\ client_stream_id' = r
              /\ cpc' = "insert"
              /\ UNCHANGED proc
  /\ UNCHANGED <<use_old_http, state, streams, pumpVars, iter_ops,
                 produced, sent, recvd, last_sz, accepted, fed, hres,
                 close_calls, fin_prints, warns, pre_calls, pre_continues,
                 pre_connected_at>>

\* h2.streams.insert(client_stream_id) and the entry into the second
\* process_loop_old
InsertOld ==
  /\ proc = "running" /\ use_old_http /\ cpc = "insert"
  /\ streams' = {} \cup {client_stream_id}
  /\ cpc' = "post"
  /\ pc' = "process_input"
  /\ in_dgrams' = <<>>
  /\ out_dgrams' = <<>>
  /\ exiting' = FALSE
  /\ last_sz' = NoSize
  /\ iter_ops' = <<>>
  /\ produced' = <<>>
  /\ sent' = <<>>
  /\ hres' = NoResult
  /\ UNCHANGED <<use_old_http, proc, state, client_stream_id, retval, recvd, accepted, fed, close_calls, fin_prints, warns,
                 request_calls, pre_calls, pre_continues, pre_connected_at>>

\* the second process_loop_old returned: old_client returns, main returns
OldClientReturn ==
  /\ proc = "running" /\ use_old_http /\ cpc = "post" /\ pc = "returned"
  /\ cpc' = "done"
  /\ proc' = "exit0"
  /\ UNCHANGED <<use_old_http, state, streams, client_stream_id, pumpVars,
                 histVars>>

\* ---- the Post-Connect handlers on their own ------------------------------
\* The handlers are functions of the events returned and of the Interest
\* Set: HandlerSpec draws both and applies the handler, keeping the whole
\* trace of what the call did in hres.

HandlerInit ==
  /\ use_old_http \in BOOLEAN
  /\ cpc = "post"
  /\ pc = "handle"
  /\ proc = "running"
  /\ state = "Connected"
  /\ \E id \in RequestStreamIds :
       /\ streams = {id}
       /\ client_stream_id = id
  /\ in_dgrams = <<>>
  /\ out_dgrams = <<>>
  /\ exiting = FALSE
  /\ retval = "Connected"
  /\ iter_ops = <<"process_input", "not_closed">>
  /\ produced = <<>>
  /\ sent = <<>>
  /\ recvd = 0
  /\ last_sz = NoSize
  /\ accepted = <<>>
  /\ fed = <<>>
  /\ \E evs \in Batches(IF use_old_http THEN ConnectionEvents ELSE Http3Events) :
       hres = [handler |-> "input", st |-> "Connected", evs |-> evs,
               ret |-> "none", trace |-> <<>>, stop |-> <<>>, rd_err |-> 0]
  /\ close_calls = <<>>
  /\ fin_prints = 0
  /\ warns = 0
  /\ request_calls = 1
  /\ pre_calls = 1
  /\ pre_continues = 0
  /\ pre_connected_at = 1

ApplyPostConnectHandler ==
  /\ ~use_old_http /\ hres.handler = "input"
  /\ LET r == PostConnectHandler_handle(hres.evs, streams) IN
       /\ hres' = [hres EXCEPT !.handler = "post", !.ret = r.ret,
                                !.trace = r.trace, !.stop = StopOps(r),
                                !.rd_err =
                                  ReadErrors(hres.evs, streams, r.trace)]
       /\ close_calls' = close_calls \o Closes(r.trace)
       /\ fin_prints' = fin_prints + Count(r.trace, "print_fin")
       /\ proc' = IF r.ret = "panic" THEN "panic" ELSE proc
       /\ exiting' = (r.ret = "false")
  /\ UNCHANGED <<use_old_http, cpc, state, streams, client_stream_id, pc,
                 in_dgrams, out_dgrams, retval, iter_ops, produced, sent,
                 recvd, last_sz, accepted, fed, warns, request_calls,
                 pre_calls, pre_continues, pre_connected_at>>

ApplyPostConnectHandlerOld ==
  /\ use_old_http /\ hres.handler = "input"
  /\ LET r == PostConnectHandlerOld_handle(hres.evs, streams) IN
       /\ hres' = [hres EXCEPT !.handler = "post", !.ret = r.ret,
                                !.trace = r.trace, !.stop = StopOps(r),
                                !.rd_err =
                                  ReadErrors(hres.evs, streams, r.trace)]
       /\ close_calls' = close_calls \o Closes(r.trace)
       /\ fin_prints' = fin_prints + Count(r.trace, "print_fin")
       /\ proc' = IF r.ret = "panic" THEN "panic" ELSE proc
       /\ exiting' = (r.ret = "false")
  /\ UNCHANGED <<use_old_http, cpc, state, streams, client_stream_id, pc,
                 in_dgrams, out_dgrams, retval, iter_ops, produced, sent,
                 recvd, last_sz, accepted, fed, warns, request_calls,
                 pre_calls, pre_continues, pre_connected_at>>

HandlerNext == ApplyPostConnectHandler \/ ApplyPostConnectHandlerOld

HandlerSpec == HandlerInit /\ [][HandlerNext]_vars

\* ---- the program --------------------------------------------------------

Next ==
  \/ ProcessInput \/ ClosedCheck \/ HandlePre \/ HandlePost
  \/ ProcessOutput \/ emit_packets \/ ExitCheck \/ RecvErr \/ Recv
  \/ Fetch \/ Insert \/ ClientReturn
  \/ ProcessInputOld \/ ClosedCheckOld \/ HandlePreOld \/ HandlePostOld
  \/ ProcessOutputOld \/ ExitCheckOld \/ RecvErrOld \/ RecvOld
  \/ StreamCreate \/ InsertOld \/ OldClientReturn

Spec == Init /\ [][Next]_vars

\* ---- properties ---------------------------------------------------------

HasOp(op) == \E i \in 1..Len(iter_ops) : iter_ops[i] = op
Last(q) == q[Len(q)]
Ids(q) == [i \in 1..Len(q) |-> q[i].id]
Increasing(q) == \A i, j \in 1..Len(q) : i < j => q[i] < q[j]
\* the entries "send" / "send_short" that follow process_output
SendOps(n) == [1..n -> {"send", "send_short"}]
OpsOf(i) == SelectSeq(hres.trace, LAMBDA t : t.ev = i)
OpNames(q) == [k \in 1..Len(q) |-> q[k].op]
\* the loop over the events got to the i-th event
Reached(i) == hres.ret = "true" \/ \E k \in 1..Len(hres.trace) : hres.trace[k].ev >= i
IsStreamEvent(e) == e.kind \in {"HeaderReady", "DataReadable", "RecvStreamReadable"}
IsDataEvent(e) == e.kind \in {"DataReadable", "RecvStreamReadable"}

\* C1: whenever the pump is at the blocking receive, every datagram that
\* this iteration's process_output returned has been passed to socket.send:
\* none is left in out_dgrams.
C1_FlushedBeforeReceive ==
  pc = "recv" =>
    /\ out_dgrams = <<>>
    /\ sent = produced
    /\ HasOp("process_output")

C1_Witness ==
  /\ proc = "running" /\ pc = "recv"
  /\ Len(produced) >= 2 /\ sent = produced

\* C2: the handler is never called on a connection found Closed after
\* process_input; once Closed is seen the iteration consists of
\* process_input and the check alone, and the pump has returned Closed.
C2_ClosedReturnsAtOnce ==
  /\ (InPump /\ pc = "handle") => state # "Closed"
  /\ HasOp("closed") =>
       /\ iter_ops = <<"process_input", "closed">>
       /\ pc = "returned"
       /\ retval = "Closed"

C2_Witness ==
  /\ pc = "returned" /\ retval = "Closed" /\ HasOp("closed")
  /\ cpc = "pre" /\ recvd > 0 /\ pre_calls > 0

\* C3: the request stream is created, the Interest Set filled and the
\* Post-Connect pump entered only if the Pre-Connect handler saw Connected.
C3_RequestOnlyWhenConnected ==
  (request_calls > 0 \/ streams # {} \/ cpc \in {"insert", "post", "done"})
    => pre_connected_at > 0

\* C4: a data-readable event on a stream of the Interest Set whose read
\* reports fin makes the handler print the completion marker once, call
\* close once with error 0 and reason "kthxbye!", and return false.
C4_FinClosesOnce ==
  hres.handler = "post" =>
    \A i \in 1..Len(hres.evs) :
      LET e == hres.evs[i] IN
        (/\ IsDataEvent(e) /\ e.stream_id \in streams
         /\ Reached(i) /\ e.rd.ok /\ e.rd.fin)
        => /\ hres.ret = "false"
           /\ Count(OpsOf(i), "print_fin") = 1
           /\ Closes(OpsOf(i)) =
                <<OpArgs(i, "close", [error |-> 0, msg |-> "kthxbye!"])>>
           /\ Len(close_calls) = 1
           /\ fin_prints = 1

\* C5: a header-ready or data-readable event on a stream outside the
\* Interest Set is answered by the membership check and the warning alone,
\* and the handler returns false; on every stream event the membership
\* check is the first thing done.
C5_UnexpectedStreamStops ==
  hres.handler = "post" =>
    \A i \in 1..Len(hres.evs) :
      LET e == hres.evs[i] IN
        (IsStreamEvent(e) /\ Reached(i)) =>
          /\ OpsOf(i) # <<>> /\ OpsOf(i)[1].op = "contains"
          /\ e.stream_id \notin streams =>
               /\ OpNames(OpsOf(i)) = <<"contains", "print_unexpected_stream">>
               /\ hres.ret = "false"
               /\ Last(hres.trace).ev = i
               /\ close_calls = <<>>

C5_Witness ==
  /\ hres.handler = "post" /\ hres.ret = "false"
  /\ Len(hres.evs) = 2
  /\ hres.evs[1].kind \in {"DataReadable", "RecvStreamReadable"}
  /\ hres.evs[1].stream_id \in streams
  /\ IsStreamEvent(hres.evs[2]) /\ hres.evs[2].stream_id \notin streams
  /\ Reached(2)

\* What the calls of the Pre-Connect handler returned so far.
PreConnectCalls ==
  /\ hres.handler = "pre" =>
       /\ hres.ret \in {"true", "false"}
       /\ (hres.ret = "true") <=> (hres.st # "Connected")
       /\ hres.trace = <<>>
  /\ pre_connected_at = 0 => pre_continues = pre_calls
  /\ pre_connected_at > 0 =>
       /\ pre_calls = pre_connected_at
       /\ pre_continues = pre_calls - 1

\* C6: the Pre-Connect handler returns true exactly when the state it sees
\* is not Connected; all calls before the one that sees Connected return
\* true and that call, which returns false, is the last one; a call changes
\* neither the connection's state nor the closes and prints of the session.
C6_PreConnectHandler ==
  /\ []PreConnectCalls
  /\ [][(cpc = "pre" /\ pc = "handle" /\ pc' # "handle") =>
          /\ state' = state
          /\ close_calls' = close_calls
          /\ fin_prints' = fin_prints
          /\ streams' = streams
          /\ exiting' = (state = "Connected")]_vars

C6_Witness ==
  /\ hres.handler = "pre" /\ hres.ret = "false"
  /\ pre_connected_at = 2 /\ pre_continues = 1 /\ pre_calls = 2

HandlerInvoked == HasOp("handler") \/ HasOp("handler_panic")
\* the iteration ran to its end: blocked in recv, or returned after the
\* exiting test
IterationOver == pc = "recv" \/ (pc = "returned" /\ HasOp("exit"))

\* C7 as stated: in every iteration in which the handler was invoked,
\* process_output is called and all the datagrams it returns are sent.
C7_AlwaysFlushed ==
  (HandlerInvoked /\ (pc \in {"recv", "returned"} \/ proc # "running")) =>
    /\ HasOp("process_output")
    /\ out_dgrams = <<>>
    /\ ~HasOp("send_panic")

\* C7 (amended): in every iteration in which the handler returned,
\* process_output is called next and its datagrams are passed to
\* socket.send in order; a send that returns an error panics and leaves the
\* rest unsent; when no send fails all are sent, and then a handler that
\* returned false makes the pump return the connection's current state,
\* with no receive, and a handler that returned true leads to the receive.
C7_FlushAfterHandler ==
  /\ HasOp("process_output") =>
       /\ Len(iter_ops) >= 4
       /\ SubSeq(iter_ops, 1, 4) =
            <<"process_input", "not_closed", "handler", "process_output">>
       /\ sent \o out_dgrams = produced
  /\ IterationOver =>
       /\ HasOp("process_output")
       /\ out_dgrams = <<>> /\ sent = produced
       /\ SubSeq(iter_ops, 5, 4 + Len(produced)) \in SendOps(Len(produced))
       /\ iter_ops[5 + Len(produced)] \in {"exit", "no_exit"}
  /\ HasOp("send_panic") =>
       /\ proc = "panic" /\ Last(iter_ops) = "send_panic"
       /\ pc = "emit"
  /\ (pc = "returned" /\ HasOp("exit")) =>
       /\ exiting /\ retval = state /\ Last(iter_ops) = "exit"
  /\ pc = "recv" => ~exiting /\ Last(iter_ops) \in {"no_exit", "recv_err"}

C7_Witness ==
  /\ cpc = "post" /\ pc = "returned" /\ HasOp("exit")
  /\ Len(produced) = 2 /\ sent = produced
  /\ close_calls # <<>>

\* C8: a receive of exactly BufLen bytes prints the warning, pushes
\* nothing to in_dgrams, ends neither the pump run nor the process, and
\* goes to the top of the loop with an empty batch; the pump can block in
\* receive again after it.
C8_TruncatedReceive ==
  /\ []((pc = "process_input" /\ last_sz = BufLen) => in_dgrams = <<>>)
  /\ [][(pc = "recv" /\ recvd' = recvd + 1 /\ last_sz' = BufLen) =>
          /\ warns' = warns + 1
          /\ in_dgrams' = <<>>
          /\ accepted' = accepted /\ fed' = fed
          /\ proc' = "running"
          /\ pc' = "process_input"
          /\ retval' = retval /\ cpc' = cpc]_vars
  /\ [][warns' # warns => (pc = "recv" /\ last_sz' = BufLen)]_vars

C8_Witness ==
  /\ proc = "running" /\ pc = "recv"
  /\ last_sz = BufLen /\ warns = 1 /\ recvd = 1 /\ fed = <<>>

\* C9: a receive error ends the process with exit code 1 at once: it is
\* the last operation of the run, and exit code 1 arises in the pump from
\* nothing else.
C9_RecvErrorFatal ==
  /\ HasOp("recv_err") =>
       /\ proc = "exit1"
       /\ Last(iter_ops) = "recv_err"
       /\ Len(SelectSeq(iter_ops, LAMBDA o : o = "recv_err")) = 1
       /\ pc = "recv"
  /\ proc = "exit1" => HasOp("recv_err")

C9_Witness ==
  /\ proc = "exit1" /\ recvd > 0 /\ cpc = "post"

\* The batch that process_input gets, from the last receive of the run.
ExpectedBatch ==
  IF last_sz >= 1 /\ last_sz <= BufLen - 1
    THEN <<[id |-> recvd, len |-> last_sz]>>
    ELSE <<>>

\* C10: at the call of process_input the batch is the datagram of the
\* last receive if its length was 1..BufLen-1, and empty otherwise; the
\* batch is empty everywhere else; the datagrams fed are the accepted ones,
\* each once, in arrival order.
C10_InputBatch ==
  /\ pc = "process_input" => in_dgrams = ExpectedBatch
  /\ pc # "process_input" => in_dgrams = <<>>
  /\ Len(in_dgrams) <= 1
  /\ accepted = fed \o Ids(in_dgrams)
  /\ Increasing(accepted)
  /\ Len(accepted) <= recvd

C10_Witness ==
  /\ pc = "closed_check" /\ fed = <<1, 2>> /\ accepted = fed

\* C11: the Interest Set is empty up to the insert that follows the
\* creation of the request stream and holds exactly the created id from
\* then on; it never has more than one element; the only step that changes
\* it is that insert, so no handler call adds to it or removes from it.
C11_InterestSet ==
  /\ [](/\ Cardinality(streams) <= 1
        /\ cpc \in {"pre", "insert"} => streams = {}
        /\ cpc = "pre" => client_stream_id = NoStream /\ request_calls <= 1
        /\ cpc \in {"insert", "post", "done"} =>
             /\ client_stream_id \in RequestStreamIds
             /\ request_calls = 1
        /\ cpc \in {"post", "done"} => streams = {client_stream_id})
  /\ [][streams' # streams =>
          /\ cpc = "insert" /\ cpc' = "post"
          /\ streams = {} /\ streams' = {client_stream_id}]_vars
  /\ [][client_stream_id' # client_stream_id =>
          /\ cpc = "pre" /\ cpc' = "insert"
          /\ request_calls' = request_calls + 1]_vars
  /\ [][pc = "handle" => streams' = streams]_vars

C11_Witness ==
  /\ cpc = "post" /\ hres.handler = "post" /\ hres.ret = "true"
  /\ recvd = 2 /\ streams = {client_stream_id} /\ client_stream_id # NoStream

\* the operations of the arm that ends the phase on final data, and of the
\* arm that ends it on a stream outside the Interest Set
FinOps == <<"contains", "read", "from_utf8", "print_read", "print_fin", "close">>
UnexpectedStreamOps == <<"contains", "print_unexpected_stream">>
\* the session is over: the Post-Connect pump run returned, or the process
\* ended otherwise than by returning from main
SessionOver ==
  \/ cpc \in {"post", "done"} /\ pc = "returned"
  \/ proc \in {"exit1", "panic"}

\* C12 as stated: the session ends only by the close that the Post-Connect
\* handler issues on final data, or by a fatal I/O error.
C12_OnlyTwoPaths ==
  SessionOver =>
    \/ exiting /\ close_calls # <<>> /\ Last(iter_ops) = "exit"
    \/ Last(iter_ops) \in {"recv_err", "send_panic"}

\* C12 (amended): the Post-Connect pump run returns only when the
\* connection is found Closed after process_input, or after the flush that
\* follows a handler call that returned false, which the handler does after
\* its close on final data and also, with no close, on an event for a
\* stream outside the Interest Set; the process ends otherwise only by a
\* receive error (exit code 1), by a panic on a send error, on a failed
\* creation of the request, or on a failed read or invalid UTF-8 in the
\* Post-Connect handler.
C12_SessionEnds ==
  /\ (cpc = "post" /\ pc = "returned" /\ proc = "running") =>
       \/ iter_ops = <<"process_input", "closed">> /\ retval = "Closed"
       \/ Last(iter_ops) = "exit" /\ exiting /\ HasOp("handler")
  /\ (cpc = "post" /\ hres.handler = "post" /\ hres.ret = "false") =>
       \/ hres.stop = FinOps /\ Len(hres.trace) = 1
       \/ hres.stop = UnexpectedStreamOps /\ hres.trace = <<>>
  /\ (cpc = "post" /\ pc = "process_output") =>
       /\ hres.handler = "post" /\ hres.ret \in {"true", "false"}
       /\ exiting = (hres.ret = "false")
  /\ (cpc = "post" /\ exiting) => pc \in {"process_output", "emit", "returned"}
  /\ (cpc = "post" /\ proc # "running") =>
       \/ proc = "exit1" /\ Last(iter_ops) = "recv_err"
       \/ proc = "panic" /\ Last(iter_ops) = "send_panic"
       \/ /\ proc = "panic" /\ Last(iter_ops) = "handler_panic"
          /\ hres.ret = "panic"
          /\ hres.stop \in {<<"contains", "read">>,
                            <<"contains", "read", "from_utf8">>}
  /\ (cpc = "pre" /\ proc # "running") =>
       \/ proc = "exit1" /\ Last(iter_ops) = "recv_err"
       \/ proc = "panic" /\ Last(iter_ops) = "send_panic"
       \/ proc = "panic" /\ pc = "returned" /\ request_calls = 1
  /\ cpc = "insert" => proc = "running"
  /\ (cpc = "done") <=> (proc = "exit0")
  /\ cpc = "done" => pc = "returned"

C12_Witness ==
  /\ cpc = "post" /\ pc = "returned" /\ proc = "running"
  /\ Last(iter_ops) = "exit" /\ exiting /\ close_calls = <<>>
  /\ state = "Connected"

\* C13: no timer moves the pump. A pump run starts at process_input (at the
\* start of the program and at the entry of the second run); every other
\* arrival at process_input is the step of one completed receive, and every
\* completed receive leads to process_input, which is called once for it;
\* the pump blocked in the receive is moved by nothing but the socket's
\* answer, a completed receive or a receive error, so that with no answer
\* it stays there and does not return.
C13_NoTimer ==
  /\ [][(pc' = "process_input" /\ pc # "process_input") =>
          \/ /\ pc = "recv" /\ recvd' = recvd + 1
             /\ last_sz' \in RecvSizes /\ cpc' = cpc
          \/ /\ cpc = "insert" /\ cpc' = "post" /\ pc = "returned"
             /\ last_sz' = NoSize /\ recvd' = recvd]_vars
  /\ [][recvd' # recvd =>
          /\ recvd' = recvd + 1
          /\ pc = "recv" /\ pc' = "process_input"]_vars
  /\ [][pc = "process_input" => (pc' = "closed_check" /\ recvd' = recvd)]_vars
  /\ [][pc = "recv" =>
          \/ recvd' = recvd + 1 /\ proc' = "running" /\ pc' = "process_input"
          \/ recvd' = recvd /\ proc' = "exit1" /\ pc' = "recv"]_vars
  /\ [](pc = "recv" => ~exiting)

C13_Witness ==
  /\ cpc = "post" /\ pc = "recv" /\ proc = "running"
  /\ recvd = 1 /\ last_sz = 0 /\ fed = <<>>
  /\ state = "Connected" /\ ~exiting

IsSendOp(o) == o \in {"send", "send_short", "send_panic"}

\* C14: a short send ends nothing. After it the process runs on and the
\* loop of emit_packets goes to the next datagram of the batch, or, at the
\* end of the batch, the pump goes to its exiting test; each datagram of
\* the batch is passed to send once, in the batch's order, whatever the
\* earlier sends returned; whenever the process has ended, the last
\* operation was not a short send.
C14_ShortSendIgnored ==
  HasOp("send_short") =>
    /\ sent \o out_dgrams = produced
    /\ Len(sent) = Len(SelectSeq(iter_ops, IsSendOp))
    /\ Last(iter_ops) = "send_short" =>
         /\ proc = "running" /\ pc = "emit"
         /\ out_dgrams # <<>> => ENABLED emit_packets
         /\ out_dgrams = <<>> => ENABLED (ExitCheck \/ ExitCheckOld)
    /\ proc # "running" => Last(iter_ops) # "send_short"
    /\ (proc # "running" /\ pc # "returned") =>
         Last(iter_ops) \in {"send_panic", "recv_err"}
    /\ pc \in {"emit", "recv", "returned"}
    /\ pc \in {"recv", "returned"} =>
         /\ out_dgrams = <<>>
         /\ Last(iter_ops) \in {"exit", "no_exit", "recv_err"}

C14_Witness ==
  /\ pc = "recv" /\ proc = "running" /\ Len(iter_ops) = 7
  /\ iter_ops[5] = "send_short" /\ iter_ops[6] = "send"
  /\ Len(produced) = 2 /\ sent = produced

\* the place of an operation in the body of the loop; the receive is the
\* step that starts the record of the next iteration, or the receive error
OpRank(o) ==
  CASE o = "process_input" -> 1
    [] o \in {"closed", "not_closed"} -> 2
    [] o \in {"handler", "handler_panic"} -> 3
    [] o = "process_output" -> 4
    [] IsSendOp(o) -> 5
    [] o \in {"exit", "no_exit"} -> 6
    [] o = "recv_err" -> 7
IsHandlerOp(o) == o \in {"handler", "handler_panic"}

\* C15: the operations of an iteration come in the order process_input,
\* Closed check, handler, process_output, sends, exiting test, receive,
\* none left out except that a Closed connection, a panic or a receive
\* error ends the iteration; when the handler runs, and when process_output
\* runs, every datagram received so far has been passed to process_input
\* and the batch is empty; the handler is called once in an iteration whose
\* Closed check fails and not at all in one whose check succeeds.
C15_FixedOrder ==
  /\ iter_ops # <<>> => iter_ops[1] = "process_input"
  /\ \A i \in 1..(Len(iter_ops) - 1) :
       LET a == OpRank(iter_ops[i])
           b == OpRank(iter_ops[i + 1])
       IN  \/ b = a + 1
           \/ a = 5 /\ b = 5
           \/ a = 4 /\ b = 6
  /\ pc = "process_input" => iter_ops = <<>>
  /\ pc = "closed_check" => iter_ops = <<"process_input">>
  /\ pc = "handle" =>
       \/ iter_ops = <<"process_input", "not_closed">>
       \/ /\ iter_ops = <<"process_input", "not_closed", "handler_panic">>
          /\ proc = "panic"
  /\ pc = "process_output" =>
       iter_ops = <<"process_input", "not_closed", "handler">>
  /\ pc = "emit" => OpRank(Last(iter_ops)) \in {4, 5}
  /\ pc = "recv" => Last(iter_ops) \in {"no_exit", "recv_err"}
  /\ iter_ops # <<>> => in_dgrams = <<>> /\ accepted = fed
  /\ pc \in {"closed_check", "handle", "process_output"} =>
       produced = <<>> /\ sent = <<>> /\ out_dgrams = <<>>
  /\ Len(SelectSeq(iter_ops, IsHandlerOp)) =
       IF HasOp("not_closed") /\ (pc # "handle" \/ proc = "panic")
         THEN 1 ELSE 0

C15_Witness ==
  /\ cpc = "post" /\ pc = "recv" /\ proc = "running"
  /\ iter_ops = <<"process_input", "not_closed", "handler",
                  "process_output", "send", "send", "no_exit">>
  /\ fed = <<1>> /\ recvd = 1

\* what the handler does for an event that is neither header-ready nor
\* data-readable
OtherEventOps(e) ==
  IF ~use_old_http THEN <<>>
  ELSE IF e.kind = "SendStreamWritable" THEN <<"print_writable">>
  ELSE <<"print_unexpected_event">>

\* C16: for an event that is neither header-ready nor data-readable the
\* framed handler does nothing and the raw handler only prints (a
\* send-stream-writable event as such, any other as unexpected): no read,
\* no close, and the loop goes on to the next event, so that a call that
\* did not return true ended at another event; a call whose events are all
\* of this kind returns true, with no read, no close, and the process
\* running.
C16_OtherEventsIgnored ==
  hres.handler = "post" =>
    /\ \A i \in 1..Len(hres.evs) :
         (~IsStreamEvent(hres.evs[i]) /\ Reached(i)) =>
           /\ OpNames(OpsOf(i)) = OtherEventOps(hres.evs[i])
           /\ hres.ret # "true" =>
                /\ Last(hres.trace).ev # i
                /\ \E j \in 1..Len(hres.evs) :
                     /\ j # i /\ IsStreamEvent(hres.evs[j])
                     /\ Last(hres.trace).ev = j
    /\ (\A i \in 1..Len(hres.evs) : ~IsStreamEvent(hres.evs[i])) =>
         /\ hres.ret = "true"
         /\ hres.stop = <<>>
         /\ Count(hres.trace, "read") = 0
         /\ Count(hres.trace, "close") = 0
         /\ close_calls = <<>>
         /\ ~exiting /\ proc = "running"
         /\ Len(hres.trace) =
              (IF use_old_http THEN 1 + Len(hres.evs) ELSE 2)

C16_Witness ==
  /\ hres.handler = "post" /\ use_old_http
  /\ Len(hres.evs) = 2
  /\ hres.evs[1].kind = "Other" /\ hres.evs[2].kind = "SendStreamWritable"
  /\ hres.ret = "true"

\* C17: when a read made for a data-readable event on a stream of the
\* Interest Set fails, the handler call ends there in a panic: it returns
\* neither true nor false, the event's operations are the membership check
\* and the read alone (no data printed, no completion marker, no close),
\* and the process is over with the pump at the handler call: no
\* process_output, no send, no receive, no step at all follows.
C17_ReadFailureAborts ==
  /\ (hres.handler = "post" /\ hres.rd_err > 0) =>
       /\ hres.rd_err = 1
       /\ hres.ret = "panic"
       /\ hres.stop = <<"contains", "read">>
       /\ hres.trace = <<>>
       /\ proc = "panic"
       /\ pc = "handle" /\ Last(iter_ops) = "handler_panic"
       /\ ~HasOp("process_output")
       /\ produced = <<>> /\ sent = <<>> /\ out_dgrams = <<>>
       /\ close_calls = <<>> /\ fin_prints = 0
       /\ ~ENABLED Next
  /\ hres.stop = <<"contains", "read">> => hres.rd_err = 1

C17_Witness ==
  /\ cpc = "post" /\ proc = "panic" /\ hres.rd_err = 1
  /\ recvd = 1 /\ fed = <<1>>

\* One step of a pump run or of the driver, written without the mode: what
\* the step does to the pump's variables, to the phase and to the record of
\* the iteration is fixed by where the pump is and by the answers of the
\* connection (state', produced'), of the handler (hres'.ret) and of the
\* socket (the send's outcome, last_sz', the receive error).
PumpStep ==
  /\ pc = "process_input" =>
       /\ pc' = "closed_check"
       /\ iter_ops' = <<"process_input">>
       /\ in_dgrams' = <<>> /\ fed' = fed \o Ids(in_dgrams)
       /\ UNCHANGED <<cpc, proc, out_dgrams, exiting, retval, recvd, last_sz>>
  /\ pc = "closed_check" =>
       /\ IF state = "Closed"
            THEN /\ pc' = "returned" /\ retval' = "Closed"
                 /\ iter_ops' = Append(iter_ops, "closed")
            ELSE /\ pc' = "handle" /\ retval' = retval
                 /\ iter_ops' = Append(iter_ops, "not_closed")
       /\ UNCHANGED <<cpc, proc, state, in_dgrams, out_dgrams, exiting,
                      recvd, last_sz, fed>>
  /\ pc = "handle" =>
       /\ hres'.handler = cpc
       /\ \/ /\ hres'.ret = "panic" /\ cpc = "post"
             /\ proc' = "panic" /\ pc' = pc /\ exiting' = exiting
             /\ iter_ops' = Append(iter_ops, "handler_panic")
          \/ /\ hres'.ret \in {"true", "false"}
             /\ exiting' = (hres'.ret = "false")
             /\ proc' = proc /\ pc' = "process_output"
             /\ iter_ops' = Append(iter_ops, "handler")
       /\ cpc = "pre" => (hres'.ret = "false") = (state = "Connected")
       /\ UNCHANGED <<cpc, in_dgrams, out_dgrams, retval, recvd, last_sz, fed>>
  /\ pc = "process_output" =>
       /\ pc' = "emit"
       /\ out_dgrams' = produced' /\ sent' = <<>>
       /\ iter_ops' = Append(iter_ops, "process_output")
       /\ UNCHANGED <<cpc, proc, in_dgrams, exiting, retval, recvd, last_sz,
                      fed>>
  /\ (pc = "emit" /\ out_dgrams # <<>>) =>
       /\ out_dgrams' = Tail(out_dgrams)
       /\ sent' = Append(sent, Head(out_dgrams))
       /\ \/ /\ proc' = "panic"
             /\ iter_ops' = Append(iter_ops, "send_panic")
          \/ /\ proc' = proc
             /\ \E o \in {"send", "send_short"} :
                  iter_ops' = Append(iter_ops, o)
       /\ UNCHANGED <<cpc, pc, state, in_dgrams, exiting, retval, produced,
                      recvd, last_sz, fed>>
  /\ (pc = "emit" /\ out_dgrams = <<>>) =>
       /\ IF exiting
            THEN /\ pc' = "returned" /\ retval' = state
                 /\ iter_ops' = Append(iter_ops, "exit")
            ELSE /\ pc' = "recv" /\ retval' = retval
                 /\ iter_ops' = Append(iter_ops, "no_exit")
       /\ UNCHANGED <<cpc, proc, state, in_dgrams, out_dgrams, exiting,
                      produced, sent, recvd, last_sz, fed>>
  /\ pc = "recv" =>
       \/ /\ proc' = "exit1"
          /\ iter_ops' = Append(iter_ops, "recv_err")
          /\ UNCHANGED <<cpc, pc, state, in_dgrams, out_dgrams, exiting,
                         retval, recvd, last_sz, fed, warns>>
       \/ /\ recvd' = recvd + 1 /\ last_sz' \in RecvSizes
          /\ pc' = "process_input" /\ iter_ops' = <<>>
          /\ in_dgrams' =
               IF last_sz' >= 1 /\ last_sz' <= BufLen - 1
                 THEN Append(in_dgrams, [id |-> recvd', len |-> last_sz'])
                 ELSE in_dgrams
          /\ warns' = IF last_sz' = BufLen THEN warns + 1 ELSE warns
          /\ UNCHANGED <<cpc, proc, state, out_dgrams, exiting, retval, fed>>
  /\ (pc = "returned" /\ cpc = "pre") =>
       /\ request_calls' = request_calls + 1
       /\ \/ proc' = "panic" /\ UNCHANGED <<cpc, client_stream_id>>
          \/ /\ proc' = proc /\ cpc' = "insert"
             /\ client_stream_id' \in RequestStreamIds
       /\ UNCHANGED <<pumpVars, state, streams, iter_ops>>
  /\ cpc = "insert" =>
       /\ cpc' = "post" /\ streams' = {client_stream_id}
       /\ pc' = "process_input" /\ iter_ops' = <<>>
       /\ in_dgrams' = <<>> /\ out_dgrams' = <<>> /\ exiting' = FALSE
       /\ last_sz' = NoSize
       /\ UNCHANGED <<proc, state, client_stream_id, retval, recvd, fed,
                      request_calls>>
  /\ (pc = "returned" /\ cpc = "post") =>
       /\ cpc' = "done" /\ proc' = "exit0"
       /\ UNCHANGED <<pumpVars, state, streams, iter_ops, histVars>>
  /\ streams' # streams => cpc = "insert"
  /\ use_old_http' = use_old_http

\* C18: process_loop and process_loop_old, and client and old_client, are
\* runs of the one step relation PumpStep, in which the mode does not
\* occur: in either mode every step of a running process is a PumpStep, a
\* process that has ended takes no step, a running process can always take
\* one, and at each point every answer that one mode's environment can give
\* the other's can give too. With the same answers the two therefore go
\* through the same operations and phases and return at the same point.
C18_SameShape ==
  /\ [][proc = "running" /\ cpc # "done" /\ PumpStep]_vars
  /\ [](proc = "running" => ENABLED Next)
  /\ []((proc = "running" /\ pc = "handle" /\ cpc = "post") =>
          \A r \in {"true", "false", "panic"} :
            ENABLED (Next /\ hres'.ret = r))
  /\ []((proc = "running" /\ pc = "process_output") =>
          \A ds \in OutBatches : ENABLED (Next /\ produced' = ds))
  /\ []((proc = "running" /\ pc = "emit" /\ out_dgrams # <<>>) =>
          \A o \in {"send", "send_short", "send_panic"} :
            ENABLED (Next /\ Last(iter_ops') = o))
  /\ []((proc = "running" /\ pc = "recv") =>
          /\ ENABLED (Next /\ proc' = "exit1")
          /\ recvd < MaxRecv =>
               \A sz \in RecvSizes : ENABLED (Next /\ last_sz' = sz))

C18_Witness ==
  /\ use_old_http /\ cpc = "post" /\ pc = "returned" /\ proc = "running"
  /\ Last(iter_ops) = "exit" /\ recvd = 2 /\ fed = <<1, 2>>
  /\ Len(produced) = 2 /\ sent = produced

\* C19: wherever a pump run has returned, by Closed or by the handler's
\* stop, its batch is empty and every accepted datagram has been passed to
\* process_input, so the new, empty batch of the next run loses nothing;
\* up to the first receive of the Post-Connect run the batch stays empty,
\* and that receive is reached only after a process_output of the run and
\* the sends of all it returned.
C19_EmptyBatchAtReturn ==
  /\ pc = "returned" =>
       /\ in_dgrams = <<>> /\ accepted = fed
       /\ Last(iter_ops) \in {"closed", "exit"}
  /\ cpc = "insert" => pc = "returned"
  /\ (cpc = "post" /\ last_sz = NoSize) =>
       /\ in_dgrams = <<>> /\ accepted = fed
       /\ pc = "recv" =>
            /\ HasOp("process_output")
            /\ out_dgrams = <<>> /\ sent = produced

C19_Witness ==
  /\ cpc = "post" /\ pc = "recv" /\ proc = "running" /\ last_sz = NoSize
  /\ recvd = 1 /\ fed = <<1>>
  /\ produced # <<>> /\ sent = produced

\* C20: a send that returns an error ends the process at that datagram: it
\* is the last operation, the datagrams after it in the batch stay unsent,
\* the pump is left inside emit_packets, with no return value set by this
\* iteration and no receive, and nothing runs after it; a process that
\* ended inside emit_packets ended by a send error.
C20_SendErrorFatal ==
  /\ HasOp("send_panic") =>
       /\ proc = "panic" /\ pc = "emit"
       /\ Last(iter_ops) = "send_panic"
       /\ Len(SelectSeq(iter_ops, LAMBDA o : o = "send_panic")) = 1
       /\ sent # <<>> /\ sent \o out_dgrams = produced
       /\ Len(sent) = Len(SelectSeq(iter_ops, IsSendOp))
       /\ ~HasOp("exit") /\ ~HasOp("no_exit") /\ ~HasOp("recv_err")
       /\ cpc = "pre" => retval = "none"
       /\ ~ENABLED Next
  /\ (proc # "running" /\ pc = "emit") =>
       proc = "panic" /\ HasOp("send_panic")

C20_Witness ==
  /\ proc = "panic" /\ pc = "emit" /\ cpc = "post"
  /\ iter_ops = <<"process_input", "not_closed", "handler",
                  "process_output", "send_panic">>
  /\ Len(produced) = 2 /\ Len(sent) = 1 /\ out_dgrams # <<>>

====
